---- MODULE Spec2Model ----
(***************************************************************************)
(* The activity registry of the Mergington High School API (src/app.py):   *)
(* the module-level dictionary `activities` and the handlers that read and *)
(* mutate it.                                                              *)
(*                                                                         *)
(*   Spec               requests handled one at a time, each to completion *)
(*   SpecOversubscribe  an enrolment client that signs fresh students up   *)
(*                      for one club, one request at a time                *)
(*   SpecThreads        the handlers as the server runs them: plain `def`  *)
(*                      path operations, executed on worker threads, with  *)
(*                      no lock around the registry                        *)
(***************************************************************************)
EXTENDS Naturals, Sequences, FiniteSets, TLC

VARIABLES
    activities,   \* the module-level dict: activity name -> record
    request,      \* the request handled last (sequential specifications)
    response,     \* the response it got
    enrolled,     \* the enrolment client's count of fresh students submitted
    threads       \* per worker thread: position in its handler, arguments, result

vars == <<activities, request, response, enrolled, threads>>

-----------------------------------------------------------------------------
(* Bounds of the model *)

\* number of fresh students the enrolment client may submit
MaxFresh == 11

\* number of worker threads that handle requests at the same time
NumWorkers == 2

-----------------------------------------------------------------------------
(* Request inputs *)

NoSuchActivity == "NoSuchActivity"

\* activity names the clients send: two seeded ones and an unknown one
RequestNames == {"Soccer Team", "Chess Club", NoSuchActivity}

\* emails the clients send: a seeded Soccer Team member, a seeded Chess Club
\* member and one that is in no seeded roster
RequestEmails == {"alex@mergington.edu", "michael@mergington.edu", "new@x.edu"}

\* the i-th fresh student of the enrolment client
Student(i) == "student" \o ToString(i) \o "@mergington.edu"

OversubscribedClub == "Chess Club"

Workers == 1..NumWorkers

\* what the worker threads are asked to do
ThreadNames == {"Chess Club", NoSuchActivity}
ThreadEmails == {"michael@mergington.edu", "new@x.edu"}

-----------------------------------------------------------------------------
(* The seeded registry *)

SeedActivities ==
    ("Soccer Team" :>
        [description |-> "Join our varsity soccer team and compete in regional tournaments",
         schedule |-> "Mondays and Wednesdays, 4:00 PM - 6:00 PM",
         max_participants |-> 25,
         participants |-> <<"alex@mergington.edu", "sarah@mergington.edu">>]) @@
    ("Basketball Club" :>
        [description |-> "Develop basketball skills and participate in friendly matches",
         schedule |-> "Tuesdays and Thursdays, 4:00 PM - 5:30 PM",
         max_participants |-> 15,
         participants |-> <<"james@mergington.edu">>]) @@
    ("Drama Club" :>
        [description |-> "Perform in school plays and develop acting skills",
         schedule |-> "Wednesdays, 3:30 PM - 5:30 PM",
         max_participants |-> 25,
         participants |-> <<"lily@mergington.edu", "ethan@mergington.edu">>]) @@
    ("Art Studio" :>
        [description |-> "Explore painting, drawing, and sculpture techniques",
         schedule |-> "Thursdays, 3:00 PM - 5:00 PM",
         max_participants |-> 18,
         participants |-> <<"ava@mergington.edu">>]) @@
    ("Debate Team" :>
        [description |-> "Develop critical thinking and public speaking through competitive debates",
         schedule |-> "Mondays, 3:30 PM - 5:00 PM",
         max_participants |-> 16,
         participants |-> <<"noah@mergington.edu", "mia@mergington.edu">>]) @@
    ("Science Olympiad" :>
        [description |-> "Compete in science competitions and conduct experiments",
         schedule |-> "Fridays, 3:00 PM - 5:00 PM",
         max_participants |-> 20,
         participants |-> <<"liam@mergington.edu">>]) @@
    ("Chess Club" :>
        [description |-> "Learn strategies and compete in chess tournaments",
         schedule |-> "Fridays, 3:30 PM - 5:00 PM",
         max_participants |-> 12,
         participants |-> <<"michael@mergington.edu", "daniel@mergington.edu">>]) @@
    ("Programming Class" :>
        [description |-> "Learn programming fundamentals and build software projects",
         schedule |-> "Tuesdays and Thursdays, 3:30 PM - 4:30 PM",
         max_participants |-> 20,
         participants |-> <<"emma@mergington.edu", "sophia@mergington.edu">>]) @@
    ("Gym Class" :>
        [description |-> "Physical education and sports activities",
         schedule |-> "Mondays, Wednesdays, Fridays, 2:00 PM - 3:00 PM",
         max_participants |-> 30,
         participants |-> <<"john@mergington.edu", "olivia@mergington.edu">>])

-----------------------------------------------------------------------------
(* Python list operations the handlers use *)

\* `email in participants`
Contains(participants, email) ==
    \E i \in 1..Len(participants) : participants[i] = email

\* the set of entries of the list
Range(participants) == {participants[i] : i \in 1..Len(participants)}

\* a variant that inserts at the head of the list
ListAppendFront(participants, email) == <<email>> \o participants

\* `participants.append(email)`
ListAppend(participants, email) == Append(participants, email)

\* a variant that drops the last entry, whatever it is
ListRemoveLast(participants, email) == SubSeq(participants, 1, Len(participants) - 1)

\* `participants.remove(email)`: deletes the first entry equal to email
\* (the caller has checked that there is one)
ListRemove(participants, email) ==
    LET first == CHOOSE i \in 1..Len(participants) :
                     /\ participants[i] = email
                     /\ \A j \in 1..(i - 1) : participants[j] # email
    IN  SubSeq(participants, 1, first - 1) \o
        SubSeq(participants, first + 1, Len(participants))

-----------------------------------------------------------------------------
(* Responses *)

\* raise HTTPException(status_code=..., detail=...)
HTTPException(status_code, detail) ==
    [status_code |-> status_code, body |-> [detail |-> detail]]

\* a returned dict, sent with status 200
Ok(message) == [status_code |-> 200, body |-> [message |-> message]]

SignedUpMessage(email, activity_name) ==
    "Signed up " \o email \o " for " \o activity_name

UnregisteredMessage(email, activity_name) ==
    "Unregistered " \o email \o " from " \o activity_name

ActivityNotFound == HTTPException(404, "Activity not found")
AlreadySignedUp == HTTPException(400, "Student already signed up for this activity")
NotSignedUp == HTTPException(400, "Student is not signed up for this activity")

\* an unhandled exception of a handler: the server answers 500
InternalServerError == [status_code |-> 500, body |-> "Internal Server Error"]

NoRequest == [op |-> "none"]
NoResponse == [status_code |-> 0, body |-> <<>>]

-----------------------------------------------------------------------------
(* The handlers, one request handled to completion *)

\* GET /
root ==
    /\ request' = [op |-> "root"]
    /\ response' = [status_code |-> 307,
                    body |-> [location |-> "/static/index.html"]]
    /\ UNCHANGED activities

\* GET /activities
get_activities ==
    /\ request' = [op |-> "get_activities"]
    /\ response' = [status_code |-> 200, body |-> activities]
    /\ UNCHANGED activities

(* Variants of signup_for_activity, each with one slip *)

\* without the membership check
signup_without_membership_check(activity_name, email) ==
    /\ request' = [op |-> "signup", activity_name |-> activity_name, email |-> email]
    /\ IF activity_name \notin DOMAIN activities
       THEN /\ response' = ActivityNotFound
            /\ UNCHANGED activities
       ELSE /\ activities' = [activities EXCEPT ![activity_name].participants =
                                  ListAppend(@, email)]
            /\ response' = Ok(SignedUpMessage(email, activity_name))

\* a membership check over every roster, placed before the existence check
signup_membership_before_existence(activity_name, email) ==
    /\ request' = [op |-> "signup", activity_name |-> activity_name, email |-> email]
    /\ IF \E b \in DOMAIN activities : Contains(activities[b].participants, email)
       THEN /\ response' = AlreadySignedUp
            /\ UNCHANGED activities
       ELSE IF activity_name \notin DOMAIN activities
       THEN /\ response' = ActivityNotFound
            /\ UNCHANGED activities
       ELSE /\ activities' = [activities EXCEPT ![activity_name].participants =
                                  ListAppend(@, email)]
            /\ response' = Ok(SignedUpMessage(email, activity_name))

\* a repeated signup answered with success instead of 400
signup_idempotent(activity_name, email) ==
    /\ request' = [op |-> "signup", activity_name |-> activity_name, email |-> email]
    /\ IF activity_name \notin DOMAIN activities
       THEN /\ response' = ActivityNotFound
            /\ UNCHANGED activities
       ELSE IF Contains(activities[activity_name].participants, email)
       THEN /\ response' = Ok(SignedUpMessage(email, activity_name))
            /\ UNCHANGED activities
       ELSE /\ activities' = [activities EXCEPT ![activity_name].participants =
                                  ListAppend(@, email)]
            /\ response' = Ok(SignedUpMessage(email, activity_name))

\* every record sharing one participants list: the append shows in all of them
signup_shared_roster(activity_name, email) ==
    /\ request' = [op |-> "signup", activity_name |-> activity_name, email |-> email]
    /\ IF activity_name \notin DOMAIN activities
       THEN /\ response' = ActivityNotFound
            /\ UNCHANGED activities
       ELSE IF Contains(activities[activity_name].participants, email)
       THEN /\ response' = AlreadySignedUp
            /\ UNCHANGED activities
       ELSE /\ activities' = [b \in DOMAIN activities |->
                                  [activities[b] EXCEPT !.participants =
                                       ListAppend(@, email)]]
            /\ response' = Ok(SignedUpMessage(email, activity_name))

\* an unknown activity created on first signup (dict.setdefault)
signup_creates_activity(activity_name, email) ==
    /\ request' = [op |-> "signup", activity_name |-> activity_name, email |-> email]
    /\ IF activity_name \notin DOMAIN activities
       THEN /\ activities' = activities @@
                                 (activity_name :>
                                     [description |-> "", schedule |-> "",
                                      max_participants |-> 0,
                                      participants |-> <<email>>])
            /\ response' = Ok(SignedUpMessage(email, activity_name))
       ELSE IF Contains(activities[activity_name].participants, email)
       THEN /\ response' = AlreadySignedUp
            /\ UNCHANGED activities
       ELSE /\ activities' = [activities EXCEPT ![activity_name].participants =
                                  ListAppend(@, email)]
            /\ response' = Ok(SignedUpMessage(email, activity_name))

\* with max_participants enforced
signup_enforcing_capacity(activity_name, email) ==
    /\ request' = [op |-> "signup", activity_name |-> activity_name, email |-> email]
    /\ IF activity_name \notin DOMAIN activities
       THEN /\ response' = ActivityNotFound
            /\ UNCHANGED activities
       ELSE IF Contains(activities[activity_name].participants, email)
       THEN /\ response' = AlreadySignedUp
            /\ UNCHANGED activities
       ELSE IF Len(activities[activity_name].participants) >=
                   activities[activity_name].max_participants
       THEN /\ response' = HTTPException(400, "Activity is full")
            /\ UNCHANGED activities
       ELSE /\ activities' = [activities EXCEPT ![activity_name].participants =
                                  ListAppend(@, email)]
            /\ response' = Ok(SignedUpMessage(email, activity_name))

\* POST /activities/{activity_name}/signup?email=...
signup_for_activity(activity_name, email) ==
    /\ request' = [op |-> "signup", activity_name |-> activity_name, email |-> email]
    /\ IF activity_name \notin DOMAIN activities
       THEN /\ response' = ActivityNotFound
            /\ UNCHANGED activities
       ELSE IF Contains(activities[activity_name].participants, email)
       THEN /\ response' = AlreadySignedUp
            /\ UNCHANGED activities
       ELSE /\ activities' = [activities EXCEPT ![activity_name].participants =
                                  ListAppend(@, email)]
            /\ response' = Ok(SignedUpMessage(email, activity_name))

\* a variant of unregister_from_activity: an absent email answered with success
unregister_idempotent(activity_name, email) ==
    /\ request' = [op |-> "unregister", activity_name |-> activity_name, email |-> email]
    /\ IF activity_name \notin DOMAIN activities
       THEN /\ response' = ActivityNotFound
            /\ UNCHANGED activities
       ELSE IF ~Contains(activities[activity_name].participants, email)
       THEN /\ response' = Ok(UnregisteredMessage(email, activity_name))
            /\ UNCHANGED activities
       ELSE /\ activities' = [activities EXCEPT ![activity_name].participants =
                                  ListRemove(@, email)]
            /\ response' = Ok(UnregisteredMessage(email, activity_name))

\* DELETE /activities/{activity_name}/unregister?email=...
unregister_from_activity(activity_name, email) ==
    /\ request' = [op |-> "unregister", activity_name |-> activity_name, email |-> email]
    /\ IF activity_name \notin DOMAIN activities
       THEN /\ response' = ActivityNotFound
            /\ UNCHANGED activities
       ELSE IF ~Contains(activities[activity_name].participants, email)
       THEN /\ response' = NotSignedUp
            /\ UNCHANGED activities
       ELSE /\ activities' = [activities EXCEPT ![activity_name].participants =
                                  ListRemove(@, email)]
            /\ response' = Ok(UnregisteredMessage(email, activity_name))

-----------------------------------------------------------------------------
(* Spec: any sequence of requests, one at a time *)

IdleThread == [pc |-> "idle"]

Init ==
    /\ activities = SeedActivities
    /\ request = NoRequest
    /\ response = NoResponse
    /\ enrolled = 0
    /\ threads = [t \in Workers |-> IdleThread]

Root == root /\ UNCHANGED <<enrolled, threads>>

GetActivities == get_activities /\ UNCHANGED <<enrolled, threads>>

SignUp ==
    \E activity_name \in RequestNames, email \in RequestEmails :
        /\ signup_for_activity(activity_name, email)
        /\ UNCHANGED <<enrolled, threads>>

Unregister ==
    \E activity_name \in RequestNames, email \in RequestEmails :
        /\ unregister_from_activity(activity_name, email)
        /\ UNCHANGED <<enrolled, threads>>

Next == Root \/ GetActivities \/ SignUp \/ Unregister

Spec == Init /\ [][Next]_vars

-----------------------------------------------------------------------------
(* SpecOversubscribe: an enrolment client signs fresh students up for one  *)
(* club, in roster order; participants of the club may withdraw            *)

EnrolNext ==
    /\ enrolled < MaxFresh
    /\ signup_for_activity(OversubscribedClub, Student(enrolled + 1))
    /\ enrolled' = enrolled + 1
    /\ UNCHANGED threads

Withdraw ==
    \E email \in Range(activities[OversubscribedClub].participants) :
        /\ unregister_from_activity(OversubscribedClub, email)
        /\ UNCHANGED <<enrolled, threads>>

NextOversubscribe == EnrolNext \/ Withdraw \/ GetActivities

SpecOversubscribe == Init /\ [][NextOversubscribe]_vars

-----------------------------------------------------------------------------
(* SpecThreads: the handlers on worker threads.  A handler is a plain      *)
(* `def`, which the server runs on a thread of its pool; the interpreter   *)
(* may switch threads between any two statements of the handlers, and no   *)
(* statement of them takes a lock.  One step per statement that reads or   *)
(* writes the registry.                                                    *)

\* a request arrives at a free worker
Receive(t) ==
    /\ threads[t].pc \in {"idle", "done"}
    /\ \E op \in {"signup", "unregister"},
          activity_name \in ThreadNames, email \in ThreadEmails :
          threads' = [threads EXCEPT ![t] =
                         [pc |-> "check_activity", op |-> op,
                          activity_name |-> activity_name, email |-> email,
                          result |-> NoResponse]]
    /\ UNCHANGED <<activities, request, response, enrolled>>

\* `if activity_name not in activities: raise HTTPException(404, ...)`
CheckActivity(t) ==
    /\ threads[t].pc = "check_activity"
    /\ IF threads[t].activity_name \notin DOMAIN activities
       THEN threads' = [threads EXCEPT ![t].pc = "done",
                                       ![t].result = ActivityNotFound]
       ELSE threads' = [threads EXCEPT ![t].pc = "check_participant"]
    /\ UNCHANGED <<activities, request, response, enrolled>>

\* `activity = activities[activity_name]` (a reference to the live record) and
\* the membership test on `activity["participants"]`
CheckParticipant(t) ==
    LET th == threads[t]
        present == Contains(activities[th.activity_name].participants, th.email)
    IN  /\ th.pc = "check_participant"
        /\ IF th.op = "signup" /\ present
           THEN threads' = [threads EXCEPT ![t].pc = "done",
                                           ![t].result = AlreadySignedUp]
           ELSE IF th.op = "unregister" /\ ~present
           THEN threads' = [threads EXCEPT ![t].pc = "done",
                                           ![t].result = NotSignedUp]
           ELSE threads' = [threads EXCEPT ![t].pc = "mutate"]
        /\ UNCHANGED <<activities, request, response, enrolled>>

\* `activity["participants"].append(email)` or `.remove(email)`, and the return.
\* list.remove raises ValueError when the entry is gone: the request ends in 500.
Mutate(t) ==
    LET th == threads[t]
        participants == activities[th.activity_name].participants
    IN  /\ th.pc = "mutate"
        /\ IF th.op = "signup"
           THEN /\ activities' = [activities EXCEPT
                                     ![th.activity_name].participants =
                                         ListAppend(@, th.email)]
                /\ threads' = [threads EXCEPT
                                  ![t].pc = "done",
                                  ![t].result = Ok(SignedUpMessage(th.email, th.activity_name))]
           ELSE IF Contains(participants, th.email)
           THEN /\ activities' = [activities EXCEPT
                                     ![th.activity_name].participants =
                                         ListRemove(@, th.email)]
                /\ threads' = [threads EXCEPT
                                  ![t].pc = "done",
                                  ![t].result = Ok(UnregisteredMessage(th.email, th.activity_name))]
           ELSE /\ threads' = [threads EXCEPT ![t].pc = "done",
                                              ![t].result = InternalServerError]
                /\ UNCHANGED activities
        /\ UNCHANGED <<request, response, enrolled>>

NextThreads ==
    \E t \in Workers :
        Receive(t) \/ CheckActivity(t) \/ CheckParticipant(t) \/ Mutate(t)

SpecThreads == Init /\ [][NextThreads]_vars

-----------------------------------------------------------------------------
(* Properties *)

Roster(activity_name) == activities[activity_name].participants

\* number of entries of the list equal to email
Count(participants, email) ==
    Cardinality({i \in 1..Len(participants) : participants[i] = email})

NoDuplicates(participants) ==
    \A i, j \in 1..Len(participants) :
        i # j => participants[i] # participants[j]

IsSignup(r) == r.op = "signup"
IsUnregister(r) == r.op = "unregister"
IsMutation(r) == IsSignup(r) \/ IsUnregister(r)

\* C1: handling requests one at a time from the seeded registry, no activity's
\* participants list ever holds the same email twice.
C1_NoDuplicateParticipants ==
    \A activity_name \in DOMAIN activities : NoDuplicates(Roster(activity_name))

\* a signup of an email already in the roster has been refused, and the roster
\* holds that email once
C1_Witness ==
    /\ IsSignup(request)
    /\ request.email = "new@x.edu"
    /\ response = AlreadySignedUp
    /\ Count(Roster(request.activity_name), request.email) = 1

\* C3: a signup or an unregister that names an activity the registry does not
\* have is answered 404 "Activity not found", whatever the email, and leaves
\* the registry as it was; it is never answered 400.
C3_UnknownActivityNotFound ==
    [][ (IsMutation(request') /\ request'.activity_name \notin DOMAIN activities)
            => /\ response' = ActivityNotFound
               /\ response'.status_code = 404
               /\ response'.body.detail = "Activity not found"
               /\ activities' = activities ]_vars

\* a signup for the unknown activity, with an email that is in a roster, got 404
C3_Witness ==
    /\ IsSignup(request)
    /\ request.activity_name = NoSuchActivity
    /\ \E b \in DOMAIN activities : Contains(Roster(b), request.email)
    /\ response = ActivityNotFound

\* C4: a signup for an existing activity is answered 400 "already signed up"
\* exactly when the email is in that activity's roster, and then the registry is
\* unchanged; otherwise it succeeds.  The same signup sent twice in a row, the
\* first one successful, is refused the second time.
C4_SignupConflict ==
    [][ (IsSignup(request') /\ request'.activity_name \in DOMAIN activities)
            => LET present == Contains(Roster(request'.activity_name), request'.email)
               IN  /\ (response'.status_code = 400) <=> present
                   /\ present => (response' = AlreadySignedUp /\ activities' = activities)
                   /\ ~present => response'.status_code = 200
                   /\ (request = request' /\ response.status_code = 200)
                          => response' = AlreadySignedUp ]_vars

\* a signup of an email that is in no seeded roster has been refused as a
\* duplicate: an earlier signup of it succeeded
C4_Witness ==
    /\ IsSignup(request)
    /\ request.activity_name = "Chess Club"
    /\ request.email = "new@x.edu"
    /\ response = AlreadySignedUp

\* C5: an unregister for an existing activity is answered 400 "not signed up"
\* exactly when the email is not in that activity's roster, and then the
\* registry is unchanged.  Right after a successful signup of the same email
\* for the same activity it succeeds and the email is gone from the roster;
\* repeated right after that, it is refused.
C5_UnregisterConflict ==
    [][ (IsUnregister(request') /\ request'.activity_name \in DOMAIN activities)
            => LET a == request'.activity_name
                   e == request'.email
                   present == Contains(Roster(a), e)
               IN  /\ (response'.status_code = 400) <=> ~present
                   /\ ~present => (response' = NotSignedUp /\ activities' = activities)
                   /\ (/\ IsSignup(request)
                       /\ request.activity_name = a
                       /\ request.email = e
                       /\ response.status_code = 200)
                          => /\ response'.status_code = 200
                             /\ ~Contains(activities'[a].participants, e)
                   /\ (request = request' /\ response.status_code = 200)
                          => response' = NotSignedUp ]_vars

\* an unregister of an email that is in no seeded roster has succeeded (it was
\* signed up before) and the email is gone
C5_Witness ==
    /\ IsUnregister(request)
    /\ request.activity_name = "Chess Club"
    /\ request.email = "new@x.edu"
    /\ response.status_code = 200
    /\ ~Contains(Roster("Chess Club"), "new@x.edu")

\* C6: a successful signup leaves the roster as it was with the email added as
\* the last entry: one entry longer, every earlier entry at its position; and a
\* listing right after it shows the email in that roster.
C6_SignupAppends ==
    [][ /\ (IsSignup(request') /\ response'.status_code = 200)
            => LET a == request'.activity_name
                   before == Roster(a)
                   after == activities'[a].participants
               IN  /\ Len(after) = Len(before) + 1
                   /\ after[Len(after)] = request'.email
                   /\ \A i \in 1..Len(before) : after[i] = before[i]
        /\ (/\ IsSignup(request)
            /\ response.status_code = 200
            /\ request'.op = "get_activities")
            => Contains(response'.body[request.activity_name].participants,
                        request.email) ]_vars

\* a signup has succeeded on a roster that had entries, and the new email is last
C6_Witness ==
    /\ IsSignup(request)
    /\ response.status_code = 200
    /\ request.activity_name = "Soccer Team"
    /\ Len(Roster("Soccer Team")) >= 3
    /\ Roster("Soccer Team")[Len(Roster("Soccer Team"))] = request.email

\* C7: a successful unregister removes one entry equal to the email: the roster
\* is one entry shorter, the email is no longer in it, and the other entries
\* keep their order.  On [alex, sarah, new], unregistering alex gives [sarah, new].
C7_UnregisterRemovesOne ==
    [][ (IsUnregister(request') /\ response'.status_code = 200)
            => LET a == request'.activity_name
                   e == request'.email
                   before == Roster(a)
                   after == activities'[a].participants
               IN  /\ Len(after) = Len(before) - 1
                   /\ ~Contains(after, e)
                   /\ \E k \in 1..Len(before) :
                          /\ before[k] = e
                          /\ \A i \in 1..(k - 1) : after[i] = before[i]
                          /\ \A i \in k..Len(after) : after[i] = before[i + 1]
                   /\ (/\ a = "Soccer Team"
                       /\ e = "alex@mergington.edu"
                       /\ before = <<"alex@mergington.edu", "sarah@mergington.edu",
                                     "new@x.edu">>)
                          => after = <<"sarah@mergington.edu", "new@x.edu">> ]_vars

\* alex has been unregistered from the Soccer Team, which is left with sarah
\* and new, in that order
C7_Witness ==
    /\ IsUnregister(request)
    /\ request.activity_name = "Soccer Team"
    /\ request.email = "alex@mergington.edu"
    /\ response.status_code = 200
    /\ Roster("Soccer Team") = <<"sarah@mergington.edu", "new@x.edu">>

\* C8: a signup or an unregister, whatever its outcome, leaves every other
\* activity's record as it was; and a signup for an existing activity succeeds
\* whenever the email is not in that activity's roster, whether or not it is in
\* other rosters.
C8_OtherActivitiesUntouched ==
    [][ IsMutation(request')
            => /\ \A b \in DOMAIN activities :
                      b # request'.activity_name
                          => /\ b \in DOMAIN activities'
                             /\ activities'[b] = activities[b]
               /\ (/\ IsSignup(request')
                   /\ request'.activity_name \in DOMAIN activities
                   /\ ~Contains(Roster(request'.activity_name), request'.email))
                      => response'.status_code = 200 ]_vars

\* the same email has been signed up for two activities, the second signup
\* just now, with the email already in another roster
C8_Witness ==
    /\ IsSignup(request)
    /\ response.status_code = 200
    /\ request.email = "new@x.edu"
    /\ Contains(Roster("Soccer Team"), "new@x.edu")
    /\ Contains(Roster("Chess Club"), "new@x.edu")

\* C9: the registry has the seeded activity names in every reachable state,
\* and every listing returns that many activities.
C9_ActivityNamesFixed ==
    /\ DOMAIN activities = DOMAIN SeedActivities
    /\ request.op = "get_activities"
           => Cardinality(DOMAIN response.body) = Cardinality(DOMAIN SeedActivities)

\* a signup naming an unknown activity has been handled; a listing after
\* rosters changed is covered by the invariant in every state
C9_Witness ==
    /\ IsSignup(request)
    /\ request.activity_name = NoSuchActivity
    /\ Roster("Chess Club") # SeedActivities["Chess Club"].participants

\* C10: a signup for an existing activity with an email not in its roster
\* succeeds and lengthens the roster, whatever the roster's length, also at or
\* beyond max_participants; and no request changes any max_participants.
C10_CapacityNotEnforced ==
    [][ /\ (/\ IsSignup(request')
            /\ request'.activity_name \in DOMAIN activities
            /\ ~Contains(Roster(request'.activity_name), request'.email))
               => /\ response'.status_code = 200
                  /\ Len(activities'[request'.activity_name].participants) =
                         Len(Roster(request'.activity_name)) + 1
        /\ \A b \in DOMAIN activities :
               /\ b \in DOMAIN activities'
               /\ activities'[b].max_participants = activities[b].max_participants
       ]_vars

\* a signup has just succeeded and the roster is longer than max_participants
C10_Witness ==
    /\ IsSignup(request)
    /\ response.status_code = 200
    /\ Len(Roster(request.activity_name)) >
           activities[request.activity_name].max_participants

-----------------------------------------------------------------------------
(* The handlers on worker threads *)

IsDoneSignup(t) ==
    /\ threads[t].pc = "done"
    /\ threads[t].op = "signup"
    /\ threads[t].result.status_code = 200

\* C2: each signup is one atomic check-then-mutate step, so two signups of the
\* same absent email for the same activity, in flight together, cannot both
\* succeed and leave the email twice in the roster.
C2_AtomicCheckThenMutate ==
    \A t, u \in Workers :
        (/\ t # u
         /\ IsDoneSignup(t)
         /\ IsDoneSignup(u)
         /\ threads[t].activity_name = threads[u].activity_name
         /\ threads[t].email = threads[u].email)
            => Count(Roster(threads[t].activity_name), threads[t].email) <= 1

====
